---------------------------- MODULE Spec2Model ----------------------------
(***************************************************************************)
(* PlayFabManualTest.py: a module-level script that configures the SDK,    *)
(* builds request dictionaries and issues six synchronous SDK calls, each  *)
(* with a callback that prints the payload it is given.                    *)
(*                                                                         *)
(* The script's position is pc, the label of the next statement ("L30" is  *)
(* the statement on source line 30).  An SDK call in progress is a member  *)
(* of active; the SDK is the environment: for each call it either invokes  *)
(* the callback once and then returns or raises, or raises before invoking *)
(* it.  The payloads it hands to the callback are drawn from small sets.   *)
(***************************************************************************)
EXTENDS Integers, Sequences, FiniteSets

VARIABLES
    cfg,        \* PlayFabManualTestSettings: TitleId, customId, DeveloperSeceretKey
    settings,   \* PlayFabSettings: TitleId, DeveloperSecretKey
    env,        \* the script's module globals
    pc,         \* label of the next statement of the script, "done" or "aborted"
    active,     \* call sites whose SDK call has been entered and has not exited
    exc,        \* the exception last raised (caught as e at line 67, or uncaught)
    calls,      \* history: the SDK calls issued, in order
    stdout,     \* history: the values printed, in order
    logged,     \* history: the exceptions the script passed to GlobalExceptionLogger
    cbLog,      \* history: the callback invocations, in order
    trace       \* history: statements, calls, callbacks, returns and raises, in order

vars == <<cfg, settings, env, pc, active, exc, calls, stdout, logged, cbLog, trace>>

---------------------------------------------------------------------------
(* Bounds and input sets *)

MaxEntity == 2

Entities == 1..MaxEntity
TitleIds == {"T1", "T2"}
CustomIds == {"cid"}
SecretKeys == {"secret"}

---------------------------------------------------------------------------
(* Python values *)

PyNone == [t |-> "None"]
PyBool(b) == [t |-> "bool", b |-> b]
PyStr(s) == [t |-> "str", s |-> s]
PyDict(f) == [t |-> "dict", d |-> f]
PyEntity(e) == [t |-> "EntityKey", id |-> e]
PyError == [t |-> "PlayFabError"]
Unbound == [t |-> "unbound"]

\* Python truth value of v, as tested by "if fail:".
Truthy(v) ==
    CASE v.t = "None" -> FALSE
      [] v.t = "bool" -> v.b
      [] v.t = "str" -> v.s # ""
      [] v.t = "dict" -> DOMAIN v.d # {}
      [] OTHER -> TRUE

\* The error raised by v[k], or "" when v[k] evaluates.
SubscriptError(v, k) ==
    IF v.t # "dict" THEN "TypeError"
    ELSE IF k \notin DOMAIN v.d THEN "KeyError"
    ELSE ""

\* The payloads the SDK hands to a callback: exactly one of success and
\* fail is present.
SuccessPayloads ==
    {PyDict(<< >>)} \cup {PyDict([Entity |-> PyEntity(e)]) : e \in Entities}
CallbackArgs ==
    {[success |-> s, fail |-> PyNone] : s \in SuccessPayloads}
        \cup {[success |-> PyNone, fail |-> PyError]}

\* The exception types an SDK call itself may raise.
SdkExceptions == {"PlayFabException", "Exception"}

NoExc == [type |-> "", at |-> ""]

---------------------------------------------------------------------------
(* The callbacks.  Each yields what the invocation prints (out), the value *)
(* of the global EntityKey after it (key) and the error it raises          *)
(* (raised, "" for none), given the value of EntityKey before it.          *)

loginCallback(success, fail, key) ==
    IF Truthy(fail)
    THEN [out |-> <<fail>>, key |-> key, raised |-> ""]
    ELSE [out |-> <<success>>, key |-> key, raised |-> ""]

\* entityTokenCallback with the failure branch also writing EntityKey.
entityTokenCallbackClobbers(success, fail, key) ==
    IF Truthy(fail)
    THEN [out |-> <<fail>>, key |-> PyNone, raised |-> ""]
    ELSE IF SubscriptError(success, "Entity") # ""
    THEN [out |-> << >>, key |-> key, raised |-> SubscriptError(success, "Entity")]
    ELSE [out |-> <<success>>, key |-> success.d["Entity"], raised |-> ""]

entityTokenCallback(success, fail, key) ==
    IF Truthy(fail)
    THEN [out |-> <<fail>>, key |-> key, raised |-> ""]
    ELSE IF SubscriptError(success, "Entity") # ""
    THEN [out |-> << >>, key |-> key, raised |-> SubscriptError(success, "Entity")]
    ELSE [out |-> <<success>>, key |-> success.d["Entity"], raised |-> ""]

entityObjectCallback(success, fail, key) ==
    IF Truthy(fail)
    THEN [out |-> <<fail>>, key |-> key, raised |-> ""]
    ELSE [out |-> <<success>>, key |-> key, raised |-> ""]

titleDataReqCallback(success, fail, key) ==
    IF Truthy(fail)
    THEN [out |-> <<fail>>, key |-> key, raised |-> ""]
    ELSE [out |-> <<success>>, key |-> key, raised |-> ""]

RunCallback(cb, success, fail, key) ==
    CASE cb = "loginCallback" -> loginCallback(success, fail, key)
      [] cb = "entityTokenCallback" -> entityTokenCallback(success, fail, key)
      [] cb = "entityObjectCallback" -> entityObjectCallback(success, fail, key)
      [] cb = "titleDataReqCallback" -> titleDataReqCallback(success, fail, key)

---------------------------------------------------------------------------
(* The script's statements *)

CallSites == {"L30", "L41", "L51", "L56", "L66", "L74"}

\* Api with the calls of lines 41 and 51 exchanged.
ApiGetObjectsEarly(l) ==
    CASE l = "L30" -> "LoginWithCustomID"
      [] l = "L41" -> "GetObjects"
      [] l = "L51" -> "GetEntityToken"
      [] l = "L56" -> "GetObjects"
      [] l = "L66" -> "GetTitleData"
      [] l = "L74" -> "GetTitleData"

\* The SDK function called at call site l.
Api(l) ==
    CASE l = "L30" -> "LoginWithCustomID"
      [] l = "L41" -> "GetEntityToken"
      [] l = "L51" -> "GetObjects"
      [] l = "L56" -> "GetObjects"
      [] l = "L66" -> "GetTitleData"
      [] l = "L74" -> "GetTitleData"

\* Arg with lines 51 and 74 passing eoRequest and titleDataRequest2.
ArgAsNamed(l) ==
    CASE l = "L30" -> "request"
      [] l = "L41" -> "etRequest"
      [] l = "L51" -> "eoRequest"
      [] l = "L56" -> "eoRequest2"
      [] l = "L66" -> "titleDataRequest"
      [] l = "L74" -> "titleDataRequest2"

\* The global whose dictionary is passed as the request at call site l.
Arg(l) ==
    CASE l = "L30" -> "request"
      [] l = "L41" -> "etRequest"
      [] l = "L51" -> "etRequest"
      [] l = "L56" -> "eoRequest2"
      [] l = "L66" -> "titleDataRequest"
      [] l = "L74" -> "titleDataRequest"

\* The callback passed at call site l.
Callback(l) ==
    CASE l = "L30" -> "loginCallback"
      [] l = "L41" -> "entityTokenCallback"
      [] l = "L51" -> "entityObjectCallback"
      [] l = "L56" -> "entityObjectCallback"
      [] l = "L66" -> "titleDataReqCallback"
      [] l = "L74" -> "titleDataReqCallback"

\* NextStmt with line 71 moved before the try block.
NextStmtSecretFirst(l) ==
    CASE l = "L14" -> "L17"
      [] l = "L17" -> "L30"
      [] l = "L30" -> "L40"
      [] l = "L40" -> "L41"
      [] l = "L41" -> "L50"
      [] l = "L50" -> "L51"
      [] l = "L51" -> "L53"
      [] l = "L53" -> "L56"
      [] l = "L56" -> "L71"
      [] l = "L71" -> "L65"
      [] l = "L65" -> "L66"
      [] l = "L66" -> "L73"
      [] l = "L68" -> "L73"
      [] l = "L73" -> "L74"
      [] l = "L74" -> "done"

\* The statement that follows statement l when l completes normally.
NextStmt(l) ==
    CASE l = "L14" -> "L17"
      [] l = "L17" -> "L30"
      [] l = "L30" -> "L40"
      [] l = "L40" -> "L41"
      [] l = "L41" -> "L50"
      [] l = "L50" -> "L51"
      [] l = "L51" -> "L53"
      [] l = "L53" -> "L56"
      [] l = "L56" -> "L65"
      [] l = "L65" -> "L66"
      [] l = "L66" -> "L71"
      [] l = "L68" -> "L71"
      [] l = "L71" -> "L73"
      [] l = "L73" -> "L74"
      [] l = "L74" -> "done"

\* The statements inside the try block of lines 64-66.
InTry(l) == l \in {"L65", "L66"}

NumCallsAt(l) == Cardinality({i \in 1..Len(calls) : calls[i].at = l})

\* OnRaise with a failed call issued a second time.
OnRaiseRetryOnce(l, x) ==
    IF InTry(l) /\ x = "PlayFabException" THEN "L68"
    ELSE IF l \in CallSites /\ NumCallsAt(l) < 2 THEN l
    ELSE "aborted"

\* OnRaise with a bare except clause.
OnRaiseCatchAll(l, x) ==
    IF InTry(l) THEN "L68" ELSE "aborted"

\* Where control goes when statement l raises an exception of type x:
\* the except clause of line 67, or out of the script.
OnRaise(l, x) ==
    IF InTry(l) /\ x = "PlayFabException" THEN "L68" ELSE "aborted"

\* Blocked for calls that return at once and complete later.
BlockedNever == FALSE

\* The calls are synchronous: the script does not run while a call is in
\* progress.
Blocked == active # {}

Ev(e, l, x) == [ev |-> e, at |-> l, x |-> x]

\* Whether the callback of the call in progress at l has been invoked.
CalledBack(l) == \E i \in 1..Len(cbLog) : cbLog[i].at = l

\* The error the callback of the call at l raised, "" for none.
CallbackError(l) ==
    LET S == {i \in 1..Len(cbLog) : cbLog[i].at = l}
    IN IF S = {} THEN "" ELSE cbLog[CHOOSE i \in S : \A j \in S : j <= i].raised

Init ==
    /\ cfg \in [TitleId : TitleIds, customId : CustomIds,
                DeveloperSeceretKey : SecretKeys]
    /\ settings = [TitleId |-> PyNone, DeveloperSecretKey |-> PyNone]
    /\ env = [customId |-> Unbound, request |-> Unbound, etRequest |-> Unbound,
              eoRequest |-> Unbound, eoRequest2 |-> Unbound,
              titleDataRequest |-> Unbound, titleDataRequest2 |-> Unbound,
              EntityKey |-> Unbound]
    /\ pc = "L14"
    /\ active = {}
    /\ exc = NoExc
    /\ calls = << >>
    /\ stdout = << >>
    /\ logged = << >>
    /\ cbLog = << >>
    /\ trace = << >>

\* Lines 14-15.
Configure ==
    /\ pc = "L14" /\ ~Blocked
    /\ settings' = [settings EXCEPT !.TitleId = PyStr(cfg.TitleId)]
    /\ env' = [env EXCEPT !.customId = PyStr(cfg.customId)]
    /\ pc' = NextStmt("L14")
    /\ trace' = Append(trace, Ev("stmt", "L14", ""))
    /\ UNCHANGED <<cfg, active, exc, calls, stdout, logged, cbLog>>

\* Lines 17-22: the value of request.
LoginRequest ==
    PyDict([CreateAccount |-> PyBool(TRUE),
            CustomId |-> env.customId,
            TitleId |-> settings.TitleId,
            LoginTitlePlayerAccountEntity |-> PyBool(TRUE)])

\* Lines 17-22.
BuildLoginRequest ==
    /\ pc = "L17" /\ ~Blocked
    /\ env' = [env EXCEPT !.request = LoginRequest]
    /\ pc' = NextStmt("L17")
    /\ trace' = Append(trace, Ev("stmt", "L17", ""))
    /\ UNCHANGED <<cfg, settings, active, exc, calls, stdout, logged, cbLog>>

\* The name bound to a new empty dictionary by the statement at l.
EmptyDictTarget(l) ==
    CASE l = "L40" -> "etRequest"
      [] l = "L50" -> "eoRequest"
      [] l = "L65" -> "titleDataRequest"
      [] l = "L73" -> "titleDataRequest2"

\* Lines 40, 50, 65 and 73: name = {}.
BuildEmptyRequest(l) ==
    /\ pc = l /\ ~Blocked
    /\ env' = [env EXCEPT ![EmptyDictTarget(l)] = PyDict(<< >>)]
    /\ pc' = NextStmt(l)
    /\ trace' = Append(trace, Ev("stmt", l, ""))
    /\ UNCHANGED <<cfg, settings, active, exc, calls, stdout, logged, cbLog>>

\* Lines 53-55: reading the global EntityKey raises NameError when no
\* assignment has bound it.
BuildEoRequest2 ==
    /\ pc = "L53" /\ ~Blocked
    /\ IF env.EntityKey = Unbound
       THEN /\ pc' = OnRaise("L53", "NameError")
            /\ exc' = [type |-> "NameError", at |-> "L53"]
            /\ trace' = Append(trace, Ev("raise", "L53", "NameError"))
            /\ UNCHANGED env
       ELSE /\ env' = [env EXCEPT !.eoRequest2 = PyDict([Entity |-> env.EntityKey])]
            /\ pc' = NextStmt("L53")
            /\ trace' = Append(trace, Ev("stmt", "L53", ""))
            /\ UNCHANGED exc
    /\ UNCHANGED <<cfg, settings, active, calls, stdout, logged, cbLog>>

\* Lines 30, 41, 51, 56, 66 and 74: the script enters the SDK function.
Call(l) ==
    /\ pc = l /\ ~Blocked
    /\ calls' = Append(calls, [at |-> l, api |-> Api(l), arg |-> Arg(l),
                               req |-> env[Arg(l)]])
    /\ active' = active \cup {l}
    /\ pc' = NextStmt(l)
    /\ trace' = Append(trace, Ev("call", l, ""))
    /\ UNCHANGED <<cfg, settings, env, exc, stdout, logged, cbLog>>

\* The SDK invokes the callback of the call in progress at l, once,
\* and the callback's body runs.
InvokeCallback(l) ==
    /\ l \in active /\ ~CalledBack(l)
    /\ \E a \in CallbackArgs :
        LET r == RunCallback(Callback(l), a.success, a.fail, env.EntityKey)
        IN /\ stdout' = stdout \o r.out
           /\ env' = [env EXCEPT !.EntityKey = r.key]
           /\ cbLog' = Append(cbLog,
                  [at |-> l, cb |-> Callback(l), success |-> a.success,
                   fail |-> a.fail, printed |-> r.out,
                   keyBefore |-> env.EntityKey, keyAfter |-> r.key,
                   raised |-> r.raised])
           /\ trace' = Append(trace, Ev("callback", l, r.raised))
    /\ UNCHANGED <<cfg, settings, pc, active, exc, calls, logged>>

\* The SDK call at l returns to the script.
Return(l) ==
    /\ l \in active /\ CalledBack(l)
    /\ active' = active \ {l}
    /\ trace' = Append(trace, Ev("return", l, ""))
    /\ UNCHANGED <<cfg, settings, env, pc, exc, calls, stdout, logged, cbLog>>

\* The SDK call at l raises: an exception of the SDK's own, or the one its
\* callback raised.
Raise(l) ==
    /\ l \in active
    /\ \E x \in SdkExceptions \cup ({CallbackError(l)} \ {""}) :
        /\ exc' = [type |-> x, at |-> l]
        /\ pc' = OnRaise(l, x)
        /\ trace' = Append(trace, Ev("raise", l, x))
    /\ active' = active \ {l}
    /\ UNCHANGED <<cfg, settings, env, calls, stdout, logged, cbLog>>

\* CatchExpected without the call to GlobalExceptionLogger.
CatchExpectedSilent ==
    /\ pc = "L68" /\ ~Blocked
    /\ stdout' = Append(stdout, PyStr("Caught expected error"))
    /\ pc' = NextStmt("L68")
    /\ trace' = Append(trace, Ev("stmt", "L68", ""))
    /\ UNCHANGED <<cfg, settings, env, active, exc, calls, logged, cbLog>>

\* Lines 67-69: the except clause.
CatchExpected ==
    /\ pc = "L68" /\ ~Blocked
    /\ stdout' = Append(stdout, PyStr("Caught expected error"))
    /\ logged' = Append(logged, exc)
    /\ pc' = NextStmt("L68")
    /\ trace' = Append(trace, Ev("stmt", "L68", ""))
    /\ UNCHANGED <<cfg, settings, env, active, exc, calls, cbLog>>

\* Line 71.
SetDeveloperSecretKey ==
    /\ pc = "L71" /\ ~Blocked
    /\ settings' = [settings EXCEPT
           !.DeveloperSecretKey = PyStr(cfg.DeveloperSeceretKey)]
    /\ pc' = NextStmt("L71")
    /\ trace' = Append(trace, Ev("stmt", "L71", ""))
    /\ UNCHANGED <<cfg, env, active, exc, calls, stdout, logged, cbLog>>

Next ==
    \/ Configure
    \/ BuildLoginRequest
    \/ \E l \in {"L40", "L50", "L65", "L73"} : BuildEmptyRequest(l)
    \/ BuildEoRequest2
    \/ \E l \in CallSites : Call(l)
    \/ \E l \in CallSites : InvokeCallback(l)
    \/ \E l \in CallSites : Return(l)
    \/ \E l \in CallSites : Raise(l)
    \/ CatchExpected
    \/ SetDeveloperSecretKey

Spec == Init /\ [][Next]_vars

\* Every SDK call returns or raises, and the interpreter runs the script.
FairSpec == Spec /\ WF_vars(Next)

Terminated == pc \in {"done", "aborted"} /\ active = {}

---------------------------------------------------------------------------
(* Properties *)

HasTrace(e, l, x) == \E i \in 1..Len(trace) : trace[i] = Ev(e, l, x)

\* The first GetTitleData call raised PlayFabException.
TitleDataRaisedExpected == HasTrace("raise", "L66", "PlayFabException")

\* The except clause of lines 67-69 has run.
HandlerDone == HasTrace("stmt", "L68", "")

ExpectedExc == [type |-> "PlayFabException", at |-> "L66"]

CaughtMessages ==
    Cardinality({i \in 1..Len(stdout) : stdout[i] = PyStr("Caught expected error")})

CallOrder ==
    <<"LoginWithCustomID", "GetEntityToken", "GetObjects", "GetObjects",
      "GetTitleData", "GetTitleData">>

SiteOrder == <<"L30", "L41", "L51", "L56", "L66", "L74">>

\* C1: the SDK calls issued so far are always a prefix of the fixed order
\* LoginWithCustomID, GetEntityToken, GetObjects, GetObjects, GetTitleData,
\* GetTitleData, whatever the outcomes of the earlier calls.
C1_FixedCallOrder ==
    /\ Len(calls) <= Len(CallOrder)
    /\ \A i \in 1..Len(calls) :
        /\ calls[i].api = CallOrder[i]
        /\ calls[i].at = SiteOrder[i]

\* All six calls have been issued in a run where some call reported failure.
C1_Witness ==
    /\ Len(calls) = 6
    /\ \E i \in 1..Len(cbLog) : cbLog[i].fail # PyNone

\* C2: every callback invocation prints exactly one payload: fail when a
\* failure is present, success otherwise.
C2_CallbackPrintsExactlyOne ==
    \A i \in 1..Len(cbLog) :
        cbLog[i].printed =
            <<IF cbLog[i].fail # PyNone THEN cbLog[i].fail ELSE cbLog[i].success>>

\* The callback of GetEntityToken was invoked and ran to its end.
TokenCallbackCompleted ==
    \E i \in 1..Len(cbLog) : cbLog[i].at = "L41" /\ cbLog[i].raised = ""

\* C3: whenever the script is about to build eoRequest2 after the callback
\* of GetEntityToken has run to its end, with success or with failure,
\* EntityKey is defined.
C3_EntityKeyDefinedAtUse ==
    (pc = "L53" /\ ~Blocked /\ TokenCallbackCompleted) => env.EntityKey # Unbound

\* The invocations of entityTokenCallback that took the success branch and
\* found an Entity field.
TokenSuccesses ==
    {i \in 1..Len(cbLog) :
        /\ cbLog[i].cb = "entityTokenCallback"
        /\ cbLog[i].fail = PyNone
        /\ SubscriptError(cbLog[i].success, "Entity") = ""}

LastTokenSuccess == CHOOSE i \in TokenSuccesses : \A j \in TokenSuccesses : j <= i

\* C4: EntityKey is written only by entityTokenCallback on its success
\* branch, to success["Entity"]; every other callback invocation and every
\* other statement leaves it unchanged; the Entity field of the second
\* GetObjects request is that of the last successful GetEntityToken response.
C4_EntityKeyWrittenOnlyOnTokenSuccess ==
    /\ \A i \in 1..Len(cbLog) :
        /\ cbLog[i].keyAfter =
              IF i \in TokenSuccesses
              THEN cbLog[i].success.d["Entity"]
              ELSE cbLog[i].keyBefore
        /\ cbLog[i].keyBefore = IF i = 1 THEN Unbound ELSE cbLog[i - 1].keyAfter
    /\ env.EntityKey = IF cbLog = << >> THEN Unbound ELSE cbLog[Len(cbLog)].keyAfter
    /\ env.eoRequest2 # Unbound =>
        /\ TokenSuccesses # {}
        /\ env.eoRequest2.d["Entity"] = cbLog[LastTokenSuccess].success.d["Entity"]
    /\ \A i \in 1..Len(calls) : calls[i].at = "L56" =>
        /\ TokenSuccesses # {}
        /\ calls[i].req.d["Entity"] = cbLog[LastTokenSuccess].success.d["Entity"]

\* The second GetObjects call was issued after a failed login and a
\* successful first GetObjects callback.
C4_Witness ==
    /\ \E i \in 1..Len(calls) : calls[i].at = "L56"
    /\ \E i \in 1..Len(cbLog) : cbLog[i].at = "L30" /\ cbLog[i].fail # PyNone
    /\ \E i \in 1..Len(cbLog) : cbLog[i].at = "L51" /\ cbLog[i].fail = PyNone

\* C5: when the first GetTitleData call raises PlayFabException the script
\* prints "Caught expected error" once, passes that exception to the logger
\* once, and goes on to assign DeveloperSecretKey and issue the second
\* GetTitleData call; when it does not, the logger is never called.
C5_ExpectedErrorCaughtAndLogged ==
    /\ HandlerDone <=> logged = <<ExpectedExc>>
    /\ ~HandlerDone <=> logged = << >>
    /\ CaughtMessages = IF HandlerDone THEN 1 ELSE 0
    /\ HandlerDone => TitleDataRaisedExpected
    /\ ~TitleDataRaisedExpected => logged = << >>
    /\ TitleDataRaisedExpected =>
        /\ pc \in {"L68", "L71", "L73", "L74", "done", "aborted"}
        /\ pc = "L68" => exc = ExpectedExc
        /\ pc # "L68" => HandlerDone
        /\ pc = "aborted" => exc.at = "L74"
        /\ pc \in {"L68", "L71", "L73", "L74"} => ENABLED Next
        /\ pc \in {"L73", "L74", "done", "aborted"} =>
              settings.DeveloperSecretKey = PyStr(cfg.DeveloperSeceretKey)
        /\ pc \in {"done", "aborted"} => NumCallsAt("L74") = 1

\* The script ran to its end after catching the expected error.
C5_Witness == TitleDataRaisedExpected /\ pc = "done" /\ active = {}

\* C6: no call site issues its call more than once, at most six calls are
\* issued, and the script terminates when every SDK call returns or raises.
C6_NoRetryAndTerminates ==
    /\ [](\A l \in CallSites : NumCallsAt(l) <= 1)
    /\ [](Len(calls) <= 6)
    /\ <>Terminated

\* The sixth call raised and the script ended without calling again.
C6_Witness ==
    /\ Terminated /\ pc = "aborted" /\ exc.at = "L74"
    /\ Len(calls) = 6

IsExit(e) == e.ev \in {"return", "raise"} /\ e.at \in CallSites

C8_OnlyExpectedErrorCaught ==
    /\ \A i \in 1..Len(logged) : logged[i] = ExpectedExc
    /\ HandlerDone => TitleDataRaisedExpected
    /\ \A i \in 1..Len(trace) :
        (/\ trace[i].ev = "raise"
         /\ trace[i].at \in CallSites
         /\ trace[i] # Ev("raise", "L66", "PlayFabException")) =>
            /\ i = Len(trace)
            /\ pc = "aborted"
            /\ exc = [type |-> trace[i].x, at |-> trace[i].at]
            /\ \A j \in 1..Len(logged) : logged[j] # exc
            /\ ~ENABLED Next

\* The first GetTitleData call raised an exception of another type.
C8_Witness ==
    /\ pc = "aborted"
    /\ exc = [type |-> "Exception", at |-> "L66"]

SecretAssigns == {i \in 1..Len(trace) : trace[i] = Ev("stmt", "L71", "")}
TitleIdAssigns == {i \in 1..Len(trace) : trace[i] = Ev("stmt", "L14", "")}

\* C9: DeveloperSecretKey is assigned at most once, only after the first
\* GetTitleData call has returned or its exception has been handled, and
\* exactly once before the second GetTitleData call is issued; it is not
\* assigned when any of the first five calls is issued; TitleId is assigned
\* once, before the first call.
C9_SecretKeyAssignedBetweenTitleDataCalls ==
    LET sa == SecretAssigns
        ta == TitleIdAssigns
    IN /\ Cardinality(sa) <= 1
       /\ Cardinality(ta) <= 1
       /\ settings.DeveloperSecretKey =
             IF sa = {} THEN PyNone ELSE PyStr(cfg.DeveloperSeceretKey)
       /\ settings.TitleId = IF ta = {} THEN PyNone ELSE PyStr(cfg.TitleId)
       /\ \A i \in sa : \E k \in 1..(i - 1) :
             trace[k] \in {Ev("return", "L66", ""), Ev("stmt", "L68", "")}
       /\ \A j \in 1..Len(trace) : trace[j].ev = "call" =>
           /\ \E i \in ta : i < j
           /\ IF trace[j].at = "L74"
              THEN \E i \in sa : i < j
              ELSE \A i \in sa : i > j
       /\ pc = "done" => Cardinality(sa) = 1

\* The script ran to its end with the first GetTitleData call returning.
C9_Witness ==
    /\ pc = "done" /\ active = {}
    /\ HasTrace("return", "L66", "")
    /\ HasTrace("return", "L74", "")

\* C10: the request passed at each call site: the four-key login request,
\* etRequest at both GetEntityToken and the first GetObjects, a dictionary
\* with the single key Entity at the second GetObjects, titleDataRequest at
\* both GetTitleData calls; eoRequest and titleDataRequest2 are never
\* passed, and a dictionary is unchanged after it is passed.
C10_RequestsPassed ==
    \A i \in 1..Len(calls) :
        LET c == calls[i]
        IN /\ c.at = "L30" =>
                /\ c.arg = "request"
                /\ DOMAIN c.req.d = {"CreateAccount", "CustomId", "TitleId",
                                     "LoginTitlePlayerAccountEntity"}
                /\ c.req.d["CreateAccount"] = PyBool(TRUE)
                /\ c.req.d["CustomId"] = PyStr(cfg.customId)
                /\ c.req.d["TitleId"] = settings.TitleId
                /\ c.req.d["TitleId"] = PyStr(cfg.TitleId)
                /\ c.req.d["LoginTitlePlayerAccountEntity"] = PyBool(TRUE)
           /\ c.at = "L41" => c.arg = "etRequest"
           /\ c.at = "L51" =>
                /\ c.arg = "etRequest"
                /\ \E j \in 1..(i - 1) :
                      calls[j].at = "L41" /\ calls[j].arg = c.arg /\ calls[j].req = c.req
           /\ c.at = "L56" =>
                /\ c.arg = "eoRequest2"
                /\ DOMAIN c.req.d = {"Entity"}
           /\ c.at = "L66" => c.arg = "titleDataRequest"
           /\ c.at = "L74" =>
                /\ c.arg = "titleDataRequest"
                /\ \E j \in 1..(i - 1) :
                      calls[j].at = "L66" /\ calls[j].arg = c.arg /\ calls[j].req = c.req
           /\ c.arg \notin {"eoRequest", "titleDataRequest2"}
           /\ c.req # Unbound
           /\ env[c.arg] = c.req

\* All six calls were issued and the two unused dictionaries were built.
C10_Witness ==
    /\ Len(calls) = 6
    /\ env.eoRequest = PyDict(<< >>)
    /\ env.titleDataRequest2 = PyDict(<< >>)


=============================================================================
